---- MODULE Spec2Model ----
(***************************************************************************)
(* Planning poker: the websocket ConnectionManager (packages/websocket),   *)
(* the DatabaseSessionManager store calls it makes (packages/session) and  *)
(* the HTTP routes that share the store (packages/app), and the in-memory  *)
(* game state machine PlanningPokerGame (packages/poker).                  *)
(*                                                                         *)
(* One step of the model is one critical section of the registry RwLock    *)
(* or one database statement: these are the points where the tokio tasks   *)
(* of different connections interleave.                                    *)
(***************************************************************************)
EXTENDS Integers, Sequences, FiniteSets, TLC

\* ---------------------------------------------------------------- bounds
MaxEvents == 4        \* inputs of a run: client messages, store errors, task ends
MaxFailures == 1      \* store calls that return Err over a run
MaxEnds == 1          \* incoming or outgoing tasks that end over a run
MaxReqs == 4          \* HTTP requests served over a run
MaxCalls == 3         \* add_connection / remove_connection calls made from outside over a run

\* ---------------------------------------------------------------- domains
Conns == {"c1", "c2"}
GameIds == {"g1", "g2"}
ExistingGames == {"g1"}
Values == {"5", "8"}
Stories == {"s1"}
Reqs == {"r1", "r2"}
PlayerIds == {"p1", "p2", "p3"}   \* players handed to a PlanningPokerGame
None == "None"        \* Option::None of a string-valued field
NoPlayer == <<>>      \* Option::None of a player id (a player id is a pair)
Nothing == <<>>       \* Option::None of a record-valued field; Some(x) is <<x>>

In(c) == <<c, "in">>
Main(c) == <<c, "main">>
Tasks == {In(c) : c \in Conns} \cup {Main(c) : c \in Conns}

VARIABLES
    connections,   \* ConnectionManager.connections: id -> Connection
    writer,        \* connection whose remove_connection holds the write guard, or None
    sent,          \* per connection: what its mpsc sender has accepted (sender.send was Ok)
    outAlive,      \* per connection: outgoing_task still running
    players,       \* table players, in insertion order
    votes,         \* table votes, in insertion order
    games,         \* table games: id -> [state, current_story]
    pc,            \* per task: position in its code
    locals,        \* per task: local variables of the running handler
    cmds,          \* per connection: messages its incoming_task has taken so far
    failures,      \* store errors injected so far
    ends,          \* incoming and outgoing tasks ended so far
    applied,       \* history: start/reveal/reset commands in store order
    ledger,        \* history: last successful cast per (game, player) since the last clear
    tainted,       \* history: (game, player) whose cast failed after its delete
    hpc,           \* per HTTP request slot: position in its route
    hlocals,       \* per HTTP request slot: locals of the route
    reqs,          \* HTTP requests that write served so far
    poker,         \* a PlanningPokerGame: [state, players, votes, current_story]
    call,          \* history: the last call on poker, its result and the game before it
    calls          \* add_connection / remove_connection calls made from outside so far

vars == <<connections, writer, sent, outAlive, players, votes, games, pc, locals,
          cmds, failures, ends, applied, ledger, tainted, hpc, hlocals, reqs,
          poker, call, calls>>

wsVars == <<connections, writer, sent, outAlive, pc, locals, cmds, applied, calls>>
httpVars == <<hpc, hlocals, reqs>>
pokerVars == <<poker, call>>

\* ---------------------------------------------------------------- helpers
Range(s) == {s[i] : i \in 1..Len(s)}

RECURSIVE Sum(_, _)
\* the sum of f over the set S
Sum(f, S) == IF S = {} THEN 0
             ELSE LET x == CHOOSE y \in S : TRUE IN f[x] + Sum(f, S \ {x})

\* locals of a task that runs no handler
Blank == [game_id |-> None, player_id |-> NoPlayer, value |-> None,
          game |-> Nothing, players |-> <<>>, votes |-> <<>>,
          msg |-> Nothing, exclude |-> None, ret |-> None, op |-> Nothing, n |-> 0,
          seen |-> Nothing, issuer |-> NoPlayer, done |-> {}]

\* ---------------------------------------------------------------- messages
GameJoined(game, ps) == [type |-> "GameJoined", game |-> game, players |-> ps]
PlayerJoined(p) == [type |-> "PlayerJoined", player |-> p]
PlayerLeft(p) == [type |-> "PlayerLeft", player_id |-> p]
VotingStarted(story) == [type |-> "VotingStarted", story |-> story]
VoteCast(p) == [type |-> "VoteCast", player_id |-> p, has_voted |-> TRUE]
VotesRevealed(vs) == [type |-> "VotesRevealed", votes |-> vs]
VotingReset == [type |-> "VotingReset"]
ErrorMsg(m) == [type |-> "Error", message |-> m]

\* what travels through a sender: the message and the command that caused it
Envelope(m, op) == [msg |-> m, op |-> op]

\* ---------------------------------------------------------------- registry
Registered(c) == c \in DOMAIN connections

NewConnection(c) == [id |-> c, player_id |-> NoPlayer, game_id |-> None, sender |-> c]

\* connections.insert(connection_id, connection)
MapInsert(m, k, v) == [x \in DOMAIN m \cup {k} |-> IF x = k THEN v ELSE m[x]]

\* variant: removing a key the map does not hold empties the map
MapRemoveOrClear(m, k) ==
    IF k \in DOMAIN m THEN [x \in DOMAIN m \ {k} |-> m[x]] ELSE [x \in {} |-> None]

\* connections.remove(connection_id)
MapRemove(m, k) == [x \in DOMAIN m \ {k} |-> m[x]]

\* variant: a connection that has a binding keeps it
BindOnce(conn, p, g) ==
    IF conn.game_id = None THEN [conn EXCEPT !.player_id = p, !.game_id = g] ELSE conn

\* connection.player_id = Some(player.id); connection.game_id = Some(game_id)
Bind(conn, p, g) == [conn EXCEPT !.player_id = p, !.game_id = g]

\* the RwLock grants a read or a write guard
LockFree == writer = None

\* variant: the fan-out forgets the game filter
RecipientsAnyGame(g, exclude) ==
    {d \in DOMAIN connections : d # exclude}

\* variant: the fan-out forgets the excluded connection
RecipientsNoExclude(g, exclude) ==
    {d \in DOMAIN connections : connections[d].game_id = g}

\* variant: a connection counts as bound only once its join handler is past its store
\* calls (the binding written after the roster is read)
RecipientsPastJoin(g, exclude) ==
    {d \in DOMAIN connections :
        /\ connections[d].game_id = g /\ d # exclude
        /\ pc[<<d, "in">>] \notin {"jg_add_player", "jg_get_game", "jg_get_players", "jg_send"}}

\* the connections broadcast_to_game sends to
Recipients(g, exclude) ==
    {d \in DOMAIN connections : connections[d].game_id = g /\ d # exclude}

\* the receiver of a channel lives in the outgoing_task of its connection: once the
\* task is over the receiver is dropped and sender.send returns Err
SinkOpen(s) == outAlive[s]

\* variant: the fan-out gives up at the first sender.send that returns Err
BroadcastStopsOnError(g, m, exclude, op) ==
    IF \E d \in Recipients(g, exclude) : ~SinkOpen(connections[d].sender)
    THEN sent
    ELSE [s \in Conns |->
            IF \E d \in Recipients(g, exclude) : connections[d].sender = s
            THEN Append(sent[s], Envelope(m, op))
            ELSE sent[s]]

\* broadcast_to_game: sender.send for every recipient; a send that returns Err (closed
\* receiver) is logged and the loop goes on
BroadcastToGame(g, m, exclude, op) ==
    [s \in Conns |->
        IF /\ \E d \in Recipients(g, exclude) : connections[d].sender = s
           /\ SinkOpen(s)
        THEN Append(sent[s], Envelope(m, op))
        ELSE sent[s]]

\* send_to_connection: sender.send for one connection; an Err is logged
SendToConnection(c, m, op) ==
    IF Registered(c) /\ SinkOpen(connections[c].sender)
    THEN [sent EXCEPT ![connections[c].sender] = Append(@, Envelope(m, op))]
    ELSE sent

\* ---------------------------------------------------------------- store
\* rows of a table that belong to game g, in table order (SELECT ... WHERE game_id = g)
RowsOfGame(table, g) ==
    LET OfGame(r) == r.game_id = g IN SelectSeq(table, OfGame)

\* Row -> Player (to_value_type)
PlayerOf(row) == [id |-> row.id]

\* Row -> Vote (to_value_type)
VoteOf(row) == [player_id |-> row.player_id, value |-> row.value]

MapSeq(s, F(_)) == [i \in 1..Len(s) |-> F(s[i])]

\* get_game
GetGame(g) == IF g \in DOMAIN games THEN <<[id |-> g, state |-> games[g].state,
                                             current_story |-> games[g].current_story]>>
              ELSE Nothing

\* the ids of the players of a roster
Ids(ps) == {ps[i].id : i \in 1..Len(ps)}

\* get_game_players
GetGamePlayers(g) == MapSeq(RowsOfGame(players, g), PlayerOf)

\* get_game_votes
GetGameVotes(g) == MapSeq(RowsOfGame(votes, g), VoteOf)

\* add_player_to_game: INSERT INTO players
AddPlayerToGame(g, p) == Append(players, [id |-> p, game_id |-> g])

\* remove_player_from_game: logs and returns Ok, the table is not touched
RemovePlayerFromGame(g, p) == players

\* variant: the DELETE of cast_vote forgets the player filter
CastVoteDeleteWholeGame(g, p) ==
    LET Keep(r) == r.game_id # g IN SelectSeq(votes, Keep)

\* cast_vote, first statement: DELETE FROM votes WHERE game_id = g AND player_id = p
CastVoteDelete(g, p) ==
    LET Keep(r) == ~(r.game_id = g /\ r.player_id = p) IN SelectSeq(votes, Keep)

\* cast_vote, second statement: INSERT INTO votes
\* (during: history, the state of the games row when the vote row is inserted)
CastVoteInsert(g, p, v) ==
    Append(votes, [game_id |-> g, player_id |-> p, value |-> v,
                   during |-> IF g \in DOMAIN games THEN games[g].state ELSE None])

\* variant: clear_game_votes leaves the table as it is
ClearGameVotesNoOp(g) == votes

\* clear_game_votes: DELETE FROM votes WHERE game_id = g
ClearGameVotes(g) ==
    LET Keep(r) == r.game_id # g IN SelectSeq(votes, Keep)

\* variant: the votes table has no key, every INSERT is accepted
VoteKeyAbsent(g, p) == TRUE

\* the votes table is keyed by (game_id, player_id): a second row for the key is refused
VoteKeyFree(g, p) == ~\E i \in 1..Len(votes) : votes[i].game_id = g /\ votes[i].player_id = p

\* an UPDATE of the games row of g: no row, nothing changes
UpdateGame(g, row) == IF g \in DOMAIN games THEN [games EXCEPT ![g] = row] ELSE games

\* start_voting: UPDATE games SET state = Voting, current_story = story
SessionStartVoting(g, story) == UpdateGame(g, [state |-> "Voting", current_story |-> story])

\* reveal_votes: UPDATE games SET state = Revealed
SessionRevealVotes(g) ==
    IF g \in DOMAIN games THEN UpdateGame(g, [games[g] EXCEPT !.state = "Revealed"])
    ELSE games

\* reset_voting, first statement: DELETE FROM votes WHERE game_id = g
ResetVotingDelete(g) ==
    LET Keep(r) == r.game_id # g IN SelectSeq(votes, Keep)

\* variant: the UPDATE of reset_voting keeps the story
ResetVotingUpdateKeepsStory(g) ==
    IF g \in DOMAIN games THEN UpdateGame(g, [games[g] EXCEPT !.state = "Waiting"])
    ELSE games

\* reset_voting, second statement: UPDATE games SET state = Waiting, current_story = NULL
ResetVotingUpdate(g) == UpdateGame(g, [state |-> "Waiting", current_story |-> None])

\* history of successful casts: the cast of p in g replaces p's entry
LedgerCast(g, p, v) ==
    {r \in ledger : ~(r.game_id = g /\ r.player_id = p)}
        \cup {[game_id |-> g, player_id |-> p, value |-> v,
                during |-> IF g \in DOMAIN games THEN games[g].state ELSE None]}

\* history of successful casts: a clear of g forgets g's entries
LedgerClear(g) == {r \in ledger : r.game_id # g}

\* history: no cast_vote of the game is between its DELETE and its INSERT, and none
\* has failed after its DELETE since the last clear
Quiet(g) ==
    /\ ~\E t \in Tasks : pc[t] = "cv_insert" /\ locals[t].game_id = g
    /\ ~\E k \in tainted : k[1] = g

\* history: the ledger entries of the game, as votes
LedgerVotes(g) ==
    {[player_id |-> r.player_id, value |-> r.value] : r \in {x \in ledger : x.game_id = g}}

\* a store call may return Err while the failure budget lasts
MayFail == failures < MaxFailures /\ Sum(cmds, Conns) + failures + ends < MaxEvents

\* ---------------------------------------------------------------- PlanningPokerGame
\* PlanningPokerGame::new
PokerNew == [state |-> "Waiting", players |-> {}, votes |-> [p \in {} |-> None],
             current_story |-> None]

\* HashMap::remove on the votes map
VotesWithout(vs, p) == [q \in DOMAIN vs \ {p} |-> vs[q]]

\* HashMap::insert on the votes map
VotesWith(vs, p, v) == [q \in DOMAIN vs \cup {p} |-> IF q = p THEN v ELSE vs[q]]

\* the Result of a call together with the game it leaves
Ok(gm) == [ok |-> TRUE, game |-> gm]
Err(gm) == [ok |-> FALSE, game |-> gm]

\* PlanningPokerGame::add_player
PokerAddPlayer(gm, p) == Ok([gm EXCEPT !.players = @ \cup {p}])

\* variant: remove_player clears the whole votes map
PokerRemovePlayerClearsVotes(gm, p) ==
    Ok([gm EXCEPT !.players = @ \ {p}, !.votes = [q \in {} |-> None]])

\* PlanningPokerGame::remove_player
PokerRemovePlayer(gm, p) ==
    Ok([gm EXCEPT !.players = @ \ {p}, !.votes = VotesWithout(@, p)])

\* variant: start_voting without its state check
PokerStartVotingAnyState(gm, story) ==
    Ok([gm EXCEPT !.current_story = story, !.state = "Voting",
                  !.votes = [p \in {} |-> None]])

\* PlanningPokerGame::start_voting
PokerStartVoting(gm, story) ==
    IF gm.state # "Waiting" THEN Err(gm)
    ELSE Ok([gm EXCEPT !.current_story = story, !.state = "Voting",
                       !.votes = [p \in {} |-> None]])

\* variant: cast_vote without its state check
PokerCastVoteAnyState(gm, p, v) ==
    IF p \notin gm.players THEN Err(gm)
    ELSE Ok([gm EXCEPT !.votes = VotesWith(@, p, v)])

\* variant: cast_vote without its roster check
PokerCastVoteAnyPlayer(gm, p, v) ==
    IF gm.state # "Voting" THEN Err(gm)
    ELSE Ok([gm EXCEPT !.votes = VotesWith(@, p, v)])

\* variant: cast_vote reveals when the last missing vote arrives
PokerCastVoteAutoReveal(gm, p, v) ==
    IF gm.state # "Voting" THEN Err(gm)
    ELSE IF p \notin gm.players THEN Err(gm)
    ELSE LET vs == VotesWith(gm.votes, p, v) IN
         Ok([gm EXCEPT !.votes = vs,
                       !.state = IF Cardinality(DOMAIN vs) = Cardinality(gm.players)
                                 THEN "Revealed" ELSE "Voting"])

\* PlanningPokerGame::cast_vote
PokerCastVote(gm, p, v) ==
    IF gm.state # "Voting" THEN Err(gm)
    ELSE IF p \notin gm.players THEN Err(gm)
    ELSE Ok([gm EXCEPT !.votes = VotesWith(@, p, v)])

\* variant: reveal_votes drops the recorded votes
PokerRevealVotesClearing(gm) ==
    IF gm.state # "Voting" THEN Err(gm)
    ELSE Ok([gm EXCEPT !.state = "Revealed", !.votes = [p \in {} |-> None]])

\* PlanningPokerGame::reveal_votes
PokerRevealVotes(gm) ==
    IF gm.state # "Voting" THEN Err(gm)
    ELSE Ok([gm EXCEPT !.state = "Revealed"])

\* variant: reset_voting keeps the story of the round it ends
PokerResetVotingKeepsStory(gm) ==
    Ok([gm EXCEPT !.state = "Waiting", !.votes = [p \in {} |-> None]])

\* PlanningPokerGame::reset_voting
PokerResetVoting(gm) ==
    Ok([gm EXCEPT !.state = "Waiting", !.votes = [p \in {} |-> None],
                  !.current_story = None])

\* PlanningPokerGame::all_players_voted
AllPlayersVoted(gm) == Cardinality(gm.players) = Cardinality(DOMAIN gm.votes)

\* ---------------------------------------------------------------- initial state
Init ==
    /\ connections = [c \in {} |-> None]
    /\ writer = None
    /\ sent = [c \in Conns |-> <<>>]
    /\ outAlive = [c \in Conns |-> FALSE]
    /\ players = <<>>
    /\ votes = <<>>
    /\ games = [g \in ExistingGames |-> [state |-> "Waiting", current_story |-> None]]
    /\ pc = [t \in Tasks |-> IF t[2] = "main" THEN "start" ELSE "unspawned"]
    /\ locals = [t \in Tasks |-> Blank]
    /\ cmds = [c \in Conns |-> 0]
    /\ failures = 0
    /\ ends = 0
    /\ applied = <<>>
    /\ ledger = {}
    /\ tainted = {}
    /\ hpc = [r \in Reqs |-> "idle"]
    /\ hlocals = [r \in Reqs |-> Blank]
    /\ reqs = 0
    /\ poker = PokerNew
    /\ call = [op |-> "new", player |-> None, ok |-> TRUE, before |-> PokerNew]
    /\ calls = 0

\* ---------------------------------------------------------------- task plumbing
\* the environment may still produce an input
Budget == Sum(cmds, Conns) + failures + ends < MaxEvents

\* the incoming_task of c is in ws_receiver.next() and the next message may arrive
CanReceive(c) == pc[In(c)] = "idle" /\ Budget

\* ClientMessage
Commands ==
    {<<"JoinGame", g>> : g \in GameIds} \cup {<<"LeaveGame">>}
        \cup {<<"CastVote", v>> : v \in Values}
        \cup {<<"StartVoting", story>> : story \in Stories}
        \cup {<<"RevealVotes">>, <<"ResetVoting">>}

\* the handler of a message reaches its first lock acquisition: the message has just
\* arrived, or it arrived while remove_connection held the write guard and the handler
\* waited (what the message says is looked at only from here on)
Arrives(c, cmd) ==
    /\ cmd \in Commands
    /\ CanReceive(c) \/ pc[In(c)] = "lock_wait"

\* the number of the command among those of its connection
CmdNo(c) == IF pc[In(c)] = "idle" THEN cmds[c] + 1 ELSE locals[In(c)].n

\* the count of arrived commands after the handler's first step
Counted(c) == IF pc[In(c)] = "idle" THEN [cmds EXCEPT ![c] = @ + 1] ELSE cmds

\* Uuid::new_v4(): an id no other call returns
NewUuid(c) == <<c, CmdNo(c)>>

\* the command a handler works for
Op(c, kind, g) == [conn |-> c, n |-> CmdNo(c), kind |-> kind, game_id |-> g]

\* the handler returns (Ok or Err): the incoming_task goes back to ws_receiver.next()
Return(t) ==
    /\ pc' = [pc EXCEPT ![t] = "idle"]
    /\ locals' = [locals EXCEPT ![t] = Blank]

\* the handler moves on to its next statement with new locals
Goto(t, label, l) ==
    /\ pc' = [pc EXCEPT ![t] = label]
    /\ locals' = [locals EXCEPT ![t] = l]

\* variant: the Err of a store call is dropped and the handler goes on to its broadcast
StoreFailsGoesOn(t) ==
    /\ MayFail
    /\ failures' = failures + 1
    /\ Goto(t, "broadcast", [locals[t] EXCEPT !.ret = "idle"])

\* a store call returns Err and `?` leaves the handler
StoreFails(t) ==
    /\ MayFail
    /\ failures' = failures + 1
    /\ Return(t)

\* ---------------------------------------------------------------- connection lifecycle
\* handle_websocket_connection: add_connection, then spawn the two tasks
AddConnection(c) ==
    /\ pc[Main(c)] = "start"
    /\ LockFree
    /\ connections' = MapInsert(connections, c, NewConnection(c))
    /\ pc' = [pc EXCEPT ![Main(c)] = "select", ![In(c)] = "idle"]
    /\ outAlive' = [outAlive EXCEPT ![c] = TRUE]
    /\ UNCHANGED <<writer, sent, players, votes, games, locals, cmds,
                   failures, applied, ledger, tainted, ends, httpVars, pokerVars, calls>>

\* incoming_task: the peer sends Close or the transport fails, the loop breaks
IncomingEnds(c) ==
    /\ pc[In(c)] = "idle"
    /\ ends < MaxEnds /\ Budget
    /\ ends' = ends + 1
    /\ pc' = [pc EXCEPT ![In(c)] = "ended"]
    /\ UNCHANGED <<connections, writer, sent, outAlive, players, votes, games, locals,
                   cmds, failures, applied, ledger, tainted, httpVars, pokerVars, calls>>

\* outgoing_task: ws_sender.send fails on a message taken from the channel, the loop breaks
OutgoingEnds(c) ==
    /\ outAlive[c]
    /\ Len(sent[c]) > 0
    /\ ends < MaxEnds /\ Budget
    /\ ends' = ends + 1
    /\ outAlive' = [outAlive EXCEPT ![c] = FALSE]
    /\ UNCHANGED <<connections, writer, sent, players, votes, games, pc, locals,
                   cmds, failures, applied, ledger, tainted, httpVars, pokerVars, calls>>

\* tokio::select! on the two JoinHandles: the first task to finish wakes the handler;
\* the JoinHandle of the other task is dropped, which detaches the task and does not stop it
Select(c) ==
    /\ pc[Main(c)] = "select"
    /\ pc[In(c)] = "ended" \/ ~outAlive[c]
    /\ pc' = [pc EXCEPT ![Main(c)] = "remove_connection"]
    /\ UNCHANGED <<connections, writer, sent, outAlive, players, votes, games, locals,
                   cmds, failures, applied, ledger, tainted, ends, httpVars, pokerVars, calls>>

\* remove_connection, up to the call of broadcast_to_game: takes the write guard, which
\* lives to the end of the function, and removes the entry (seen: whether
\* connections.remove returned Some)
RemoveConnection(c) ==
    /\ pc[Main(c)] = "remove_connection"
    /\ LockFree
    /\ writer' = c
    /\ connections' = MapRemove(connections, c)
    /\ IF Registered(c) /\ connections[c].game_id # None /\ connections[c].player_id # NoPlayer
       THEN Goto(Main(c), "broadcast",
                 [Blank EXCEPT !.game_id = connections[c].game_id,
                               !.msg = PlayerLeft(connections[c].player_id),
                               !.exclude = c,
                               !.ret = "delete_session",
                               !.op = [conn |-> c, n |-> 0, kind |-> "Disconnect",
                                       game_id |-> connections[c].game_id]])
       ELSE Goto(Main(c), "delete_session", [Blank EXCEPT !.seen = <<Registered(c)>>])
    /\ UNCHANGED <<sent, outAlive, players, votes, games, cmds,
                   failures, applied, ledger, tainted, ends, httpVars, pokerVars, calls>>

\* remove_connection, the rest: delete_session (logs, returns Ok), then the guard is dropped
DeleteSession(c) ==
    /\ pc[Main(c)] = "delete_session"
    /\ writer' = IF writer = c THEN None ELSE writer
    /\ Goto(Main(c), "done", Blank)
    /\ UNCHANGED <<connections, sent, outAlive, players, votes, games, cmds,
                   failures, applied, ledger, tainted, ends, httpVars, pokerVars, calls>>

\* broadcast_to_game as the last statement of a handler or inside remove_connection:
\* takes a read guard, sends, drops the guard
Broadcast(t) ==
    /\ pc[t] = "broadcast"
    /\ LockFree
    /\ sent' = BroadcastToGame(locals[t].game_id, locals[t].msg, locals[t].exclude,
                               locals[t].op)
    /\ Goto(t, locals[t].ret, Blank)
    /\ UNCHANGED <<connections, writer, outAlive, players, votes, games, cmds,
                   failures, applied, ledger, tainted, ends, httpVars, pokerVars, calls>>

\* incoming_task: a message arrives and handle_message is called while remove_connection
\* holds the write guard; the handler waits at its first connections.read()/write()
MessageWaitsForLock(c) ==
    /\ CanReceive(c)
    /\ ~LockFree
    /\ cmds' = [cmds EXCEPT ![c] = @ + 1]
    /\ Goto(In(c), "lock_wait", [Blank EXCEPT !.n = cmds[c] + 1])
    /\ UNCHANGED <<connections, writer, sent, outAlive, players, votes, games,
                   failures, applied, ledger, tainted, ends, httpVars, pokerVars, calls>>

\* ---------------------------------------------------------------- handle_join_game
\* a JoinGame arrives: Uuid::new_v4() for the player, then the binding is written
\* under the write guard (skipped when the connection is not in the map)
HandleJoinGame(c, g) ==
    /\ Arrives(c, <<"JoinGame", g>>)
    /\ LockFree
    /\ connections' = IF Registered(c)
                      THEN [connections EXCEPT ![c] = Bind(@, NewUuid(c), g)]
                      ELSE connections
    /\ cmds' = Counted(c)
    /\ Goto(In(c), "jg_add_player",
            [Blank EXCEPT !.game_id = g, !.player_id = NewUuid(c),
                          !.op = Op(c, "JoinGame", g)])
    /\ UNCHANGED <<writer, sent, outAlive, players, votes, games, failures,
                   applied, ledger, tainted, ends, httpVars, pokerVars, calls>>

\* session_manager.add_player_to_game(game_id, player).await?
JoinAddPlayer(c) ==
    /\ pc[In(c)] = "jg_add_player"
    /\ \/ /\ players' = AddPlayerToGame(locals[In(c)].game_id, locals[In(c)].player_id)
          /\ Goto(In(c), "jg_get_game", locals[In(c)])
          /\ UNCHANGED failures
       \/ /\ StoreFails(In(c))
          /\ UNCHANGED players
    /\ UNCHANGED <<connections, writer, sent, outAlive, votes, games, cmds,
                   applied, ledger, tainted, ends, httpVars, pokerVars, calls>>

\* session_manager.get_game(game_id).await?
JoinGetGame(c) ==
    /\ pc[In(c)] = "jg_get_game"
    /\ \/ /\ Goto(In(c), "jg_get_players",
                  [locals[In(c)] EXCEPT !.game = GetGame(locals[In(c)].game_id)])
          /\ UNCHANGED failures
       \/ StoreFails(In(c))
    /\ UNCHANGED <<connections, writer, sent, outAlive, players, votes, games,
                   cmds, applied, ledger, tainted, ends, httpVars, pokerVars, calls>>

\* session_manager.get_game_players(game_id).await?
JoinGetPlayers(c) ==
    /\ pc[In(c)] = "jg_get_players"
    /\ \/ /\ Goto(In(c), "jg_send",
                  [locals[In(c)] EXCEPT !.players = GetGamePlayers(locals[In(c)].game_id)])
          /\ UNCHANGED failures
       \/ StoreFails(In(c))
    /\ UNCHANGED <<connections, writer, sent, outAlive, players, votes, games,
                   cmds, applied, ledger, tainted, ends, httpVars, pokerVars, calls>>

\* the game exists: GameJoined to the joiner, then PlayerJoined to the others;
\* the game does not exist: Error to the joiner
JoinSend(c) ==
    /\ pc[In(c)] = "jg_send"
    /\ LockFree
    /\ LET l == locals[In(c)] IN
       IF l.game # Nothing
       THEN /\ sent' = SendToConnection(c, GameJoined(l.game[1], l.players), l.op)
            /\ Goto(In(c), "broadcast",
                    [Blank EXCEPT !.game_id = l.game_id,
                                  !.msg = PlayerJoined([id |-> l.player_id]),
                                  !.exclude = c, !.ret = "idle", !.op = l.op])
       ELSE /\ sent' = SendToConnection(c, ErrorMsg("Game not found"), l.op)
            /\ Return(In(c))
    /\ UNCHANGED <<connections, writer, outAlive, players, votes, games, cmds,
                   failures, applied, ledger, tainted, ends, httpVars, pokerVars, calls>>

\* ---------------------------------------------------------------- handle_leave_game
\* a LeaveGame arrives: the binding is read under a read guard; nothing to do when the
\* connection is unknown or unbound
HandleLeaveGame(c) ==
    /\ Arrives(c, <<"LeaveGame">>)
    /\ LockFree
    /\ cmds' = Counted(c)
    /\ IF Registered(c) /\ connections[c].game_id # None /\ connections[c].player_id # NoPlayer
       THEN Goto(In(c), "lg_remove_player",
                 [Blank EXCEPT !.game_id = connections[c].game_id,
                               !.player_id = connections[c].player_id,
                               !.op = Op(c, "LeaveGame", connections[c].game_id)])
       ELSE Return(In(c))
    /\ UNCHANGED <<connections, writer, sent, outAlive, players, votes, games,
                   failures, applied, ledger, tainted, ends, httpVars, pokerVars, calls>>

\* session_manager.remove_player_from_game(game_id, player_id).await?
LeaveRemovePlayer(c) ==
    /\ pc[In(c)] = "lg_remove_player"
    /\ LET l == locals[In(c)] IN
       \/ /\ players' = RemovePlayerFromGame(l.game_id, l.player_id)
          /\ Goto(In(c), "broadcast",
                  [Blank EXCEPT !.game_id = l.game_id, !.msg = PlayerLeft(l.player_id),
                                !.exclude = c, !.ret = "idle", !.op = l.op])
          /\ UNCHANGED failures
       \/ /\ StoreFails(In(c))
          /\ UNCHANGED players
    /\ UNCHANGED <<connections, writer, sent, outAlive, votes, games, cmds,
                   applied, ledger, tainted, ends, httpVars, pokerVars, calls>>

\* ---------------------------------------------------------------- handle_cast_vote
\* a CastVote arrives: the binding is read under a read guard
HandleCastVote(c, v) ==
    /\ Arrives(c, <<"CastVote", v>>)
    /\ LockFree
    /\ cmds' = Counted(c)
    /\ IF Registered(c) /\ connections[c].game_id # None /\ connections[c].player_id # NoPlayer
       THEN Goto(In(c), "cv_delete",
                 [Blank EXCEPT !.game_id = connections[c].game_id,
                               !.player_id = connections[c].player_id,
                               !.value = v,
                               !.op = Op(c, "CastVote", connections[c].game_id)])
       ELSE Return(In(c))
    /\ UNCHANGED <<connections, writer, sent, outAlive, players, votes, games,
                   failures, applied, ledger, tainted, ends, httpVars, pokerVars, calls>>

\* variant: the VoteCast event carries the value of the vote
CastVoteEventWithValue(l) ==
    [type |-> "VoteCast", player_id |-> l.player_id, has_voted |-> TRUE, value |-> l.value]

\* the event handle_cast_vote broadcasts for the handler locals l
CastVoteEvent(l) == VoteCast(l.player_id)

\* cast_vote: the DELETE statement
CastDelete(c) ==
    /\ pc[In(c)] = "cv_delete"
    /\ \/ /\ votes' = CastVoteDelete(locals[In(c)].game_id, locals[In(c)].player_id)
          /\ Goto(In(c), "cv_insert", locals[In(c)])
          /\ UNCHANGED failures
       \/ /\ StoreFails(In(c))
          /\ UNCHANGED votes
    /\ UNCHANGED <<connections, writer, sent, outAlive, players, games, cmds,
                   applied, ledger, tainted, ends, httpVars, pokerVars, calls>>

\* cast_vote: the INSERT statement; on Ok the handler goes on to broadcast VoteCast
CastInsert(c) ==
    /\ pc[In(c)] = "cv_insert"
    /\ LET l == locals[In(c)] IN
       \/ /\ VoteKeyFree(l.game_id, l.player_id)
          /\ votes' = CastVoteInsert(l.game_id, l.player_id, l.value)
          /\ ledger' = LedgerCast(l.game_id, l.player_id, l.value)
          /\ Goto(In(c), "broadcast",
                  [Blank EXCEPT !.game_id = l.game_id, !.msg = CastVoteEvent(l),
                                !.exclude = None, !.ret = "idle", !.op = l.op])
          /\ UNCHANGED <<failures, tainted>>
       \/ /\ MayFail \/ ~VoteKeyFree(l.game_id, l.player_id)
          /\ failures' = IF VoteKeyFree(l.game_id, l.player_id) THEN failures + 1
                         ELSE failures
          /\ tainted' = tainted \cup {<<l.game_id, l.player_id>>}
          /\ Return(In(c))
          /\ UNCHANGED <<votes, ledger>>
    /\ UNCHANGED <<connections, writer, sent, outAlive, players, games, cmds,
                   applied, ends, httpVars, pokerVars, calls>>

\* ---------------------------------------------------------------- handle_start_voting
\* a StartVoting arrives: the game binding is read under a read guard
HandleStartVoting(c, story) ==
    /\ Arrives(c, <<"StartVoting", story>>)
    /\ LockFree
    /\ cmds' = Counted(c)
    /\ IF Registered(c) /\ connections[c].game_id # None
       THEN Goto(In(c), "sv_clear_votes",
                 [Blank EXCEPT !.game_id = connections[c].game_id,
                               !.msg = VotingStarted(story),
                               !.op = Op(c, "StartVoting", connections[c].game_id)])
       ELSE Return(In(c))
    /\ UNCHANGED <<connections, writer, sent, outAlive, players, votes, games,
                   failures, applied, ledger, tainted, ends, httpVars, pokerVars, calls>>

\* session_manager.clear_game_votes(game_id).await? of handle_start_voting
StartClearVotes(c) ==
    /\ pc[In(c)] = "sv_clear_votes"
    /\ LET l == locals[In(c)] IN
       \/ /\ votes' = ClearGameVotes(l.game_id)
          /\ ledger' = LedgerClear(l.game_id)
          /\ tainted' = {k \in tainted : k[1] # l.game_id}
          /\ applied' = Append(applied, l.op)
          /\ Goto(In(c), "broadcast",
                  [Blank EXCEPT !.game_id = l.game_id, !.msg = l.msg,
                                !.exclude = None, !.ret = "idle", !.op = l.op])
          /\ UNCHANGED failures
       \/ /\ StoreFails(In(c))
          /\ UNCHANGED <<votes, ledger, tainted, applied>>
    /\ UNCHANGED <<connections, writer, sent, outAlive, players, games, cmds,
                   ends, httpVars, pokerVars, calls>>

\* ---------------------------------------------------------------- handle_reveal_votes
\* a RevealVotes arrives: the game binding is read under a read guard
HandleRevealVotes(c) ==
    /\ Arrives(c, <<"RevealVotes">>)
    /\ LockFree
    /\ cmds' = Counted(c)
    /\ IF Registered(c) /\ connections[c].game_id # None
       THEN Goto(In(c), "rv_get_votes",
                 [Blank EXCEPT !.game_id = connections[c].game_id,
                               !.op = Op(c, "RevealVotes", connections[c].game_id)])
       ELSE Return(In(c))
    /\ UNCHANGED <<connections, writer, sent, outAlive, players, votes, games,
                   failures, applied, ledger, tainted, ends, httpVars, pokerVars, calls>>

\* session_manager.get_game_votes(game_id).await? of handle_reveal_votes
RevealGetVotes(c) ==
    /\ pc[In(c)] = "rv_get_votes"
    /\ LET l == locals[In(c)] IN
       \/ /\ applied' = Append(applied, l.op)
          /\ Goto(In(c), "broadcast",
                  [Blank EXCEPT !.game_id = l.game_id,
                                !.msg = VotesRevealed(GetGameVotes(l.game_id)),
                                !.exclude = None, !.ret = "idle", !.op = l.op,
                                !.seen = <<[quiet |-> Quiet(l.game_id),
                                            cast |-> LedgerVotes(l.game_id)]>>])
          /\ UNCHANGED failures
       \/ /\ StoreFails(In(c))
          /\ UNCHANGED applied
    /\ UNCHANGED <<connections, writer, sent, outAlive, players, votes, games,
                   cmds, ledger, tainted, ends, httpVars, pokerVars, calls>>

\* variant: handle_reset_voting asks only whether the connection is registered and
\* goes on with whatever game_id the connection has
HandleResetVotingOfAnyRegistered(c) ==
    /\ Arrives(c, <<"ResetVoting">>)
    /\ LockFree
    /\ cmds' = Counted(c)
    /\ IF Registered(c)
       THEN Goto(In(c), "rs_clear_votes",
                 [Blank EXCEPT !.game_id = connections[c].game_id,
                               !.op = Op(c, "ResetVoting", connections[c].game_id)])
       ELSE Return(In(c))
    /\ UNCHANGED <<connections, writer, sent, outAlive, players, votes, games,
                   failures, applied, ledger, tainted, ends, httpVars, pokerVars, calls>>

\* ---------------------------------------------------------------- handle_reset_voting
\* a ResetVoting arrives: the game binding is read under a read guard
HandleResetVoting(c) ==
    /\ Arrives(c, <<"ResetVoting">>)
    /\ LockFree
    /\ cmds' = Counted(c)
    /\ IF Registered(c) /\ connections[c].game_id # None
       THEN Goto(In(c), "rs_clear_votes",
                 [Blank EXCEPT !.game_id = connections[c].game_id,
                               !.op = Op(c, "ResetVoting", connections[c].game_id)])
       ELSE Return(In(c))
    /\ UNCHANGED <<connections, writer, sent, outAlive, players, votes, games,
                   failures, applied, ledger, tainted, ends, httpVars, pokerVars, calls>>

\* session_manager.clear_game_votes(game_id).await? of handle_reset_voting
ResetClearVotes(c) ==
    /\ pc[In(c)] = "rs_clear_votes"
    /\ LET l == locals[In(c)] IN
       \/ /\ votes' = ClearGameVotes(l.game_id)
          /\ ledger' = LedgerClear(l.game_id)
          /\ tainted' = {k \in tainted : k[1] # l.game_id}
          /\ applied' = Append(applied, l.op)
          /\ Goto(In(c), "broadcast",
                  [Blank EXCEPT !.game_id = l.game_id, !.msg = VotingReset,
                                !.exclude = None, !.ret = "idle", !.op = l.op])
          /\ UNCHANGED failures
       \/ /\ StoreFails(In(c))
          /\ UNCHANGED <<votes, ledger, tainted, applied>>
    /\ UNCHANGED <<connections, writer, sent, outAlive, players, games, cmds,
                   ends, httpVars, pokerVars, calls>>

\* ---------------------------------------------------------------- specification
Next ==
    \/ \E c \in Conns : AddConnection(c)
    \/ \E c \in Conns : IncomingEnds(c)
    \/ \E c \in Conns : OutgoingEnds(c)
    \/ \E c \in Conns : Select(c)
    \/ \E c \in Conns : RemoveConnection(c)
    \/ \E c \in Conns : DeleteSession(c)
    \/ \E t \in Tasks : Broadcast(t)
    \/ \E c \in Conns : MessageWaitsForLock(c)
    \/ \E c \in Conns, g \in GameIds : HandleJoinGame(c, g)
    \/ \E c \in Conns : JoinAddPlayer(c)
    \/ \E c \in Conns : JoinGetGame(c)
    \/ \E c \in Conns : JoinGetPlayers(c)
    \/ \E c \in Conns : JoinSend(c)
    \/ \E c \in Conns : HandleLeaveGame(c)
    \/ \E c \in Conns : LeaveRemovePlayer(c)
    \/ \E c \in Conns, v \in Values : HandleCastVote(c, v)
    \/ \E c \in Conns : CastDelete(c)
    \/ \E c \in Conns : CastInsert(c)
    \/ \E c \in Conns, story \in Stories : HandleStartVoting(c, story)
    \/ \E c \in Conns : StartClearVotes(c)
    \/ \E c \in Conns : HandleRevealVotes(c)
    \/ \E c \in Conns : RevealGetVotes(c)
    \/ \E c \in Conns : HandleResetVoting(c)
    \/ \E c \in Conns : ResetClearVotes(c)

Spec == Init /\ [][Next]_vars

\* ---------------------------------------------------------------- HTTP routes
\* a request slot is free and the clients may still send a request
CanServe(r) == hpc[r] = "idle" /\ reqs < MaxReqs

\* the route returns its response
HttpReturn(r) ==
    /\ hpc' = [hpc EXCEPT ![r] = "idle"]
    /\ hlocals' = [hlocals EXCEPT ![r] = Blank]

\* the route moves on to its next statement with new locals
HttpGoto(r, label, l) ==
    /\ hpc' = [hpc EXCEPT ![r] = label]
    /\ hlocals' = [hlocals EXCEPT ![r] = l]

\* a store call of a route returns Err and the route answers with an error
HttpStoreFails(r) ==
    /\ MayFail
    /\ failures' = failures + 1
    /\ HttpReturn(r)

\* join_game_api_route: get_game; an unknown game ends the route with "Game not found"
HttpJoinGame(r, g) ==
    /\ CanServe(r)
    /\ reqs' = reqs + 1
    /\ \/ /\ IF GetGame(g) # Nothing
             THEN HttpGoto(r, "hj_add_player",
                           [Blank EXCEPT !.game_id = g, !.player_id = <<r, reqs + 1>>])
             ELSE HttpReturn(r)
          /\ UNCHANGED failures
       \/ HttpStoreFails(r)
    /\ UNCHANGED <<wsVars, pokerVars, players, votes, games, ends, ledger, tainted>>

\* join_game_api_route: add_player_to_game (the roster read that follows only feeds
\* the page update)
HttpJoinAddPlayer(r) ==
    /\ hpc[r] = "hj_add_player"
    /\ \/ /\ players' = AddPlayerToGame(hlocals[r].game_id, hlocals[r].player_id)
          /\ HttpReturn(r)
          /\ UNCHANGED failures
       \/ /\ HttpStoreFails(r)
          /\ UNCHANGED players
    /\ UNCHANGED <<wsVars, pokerVars, votes, games, ends, ledger, tainted, reqs>>

\* the player vote_route casts for: the first player of the roster it read
FirstPlayer(ps) == IF Len(ps) > 0 THEN ps[1].id ELSE NoPlayer

\* vote_route: get_game_players(..).unwrap_or_default(); an empty roster ends the route
\* with "No players in game". The request is sent by one of the players of the game
\* (issuer); the form it carries holds the vote value and nothing else
HttpVote(r, g, v) ==
    /\ CanServe(r)
    /\ reqs' = reqs + 1
    /\ \/ /\ IF FirstPlayer(GetGamePlayers(g)) # NoPlayer
             THEN \E who \in Ids(GetGamePlayers(g)) :
                     HttpGoto(r, "hv_delete",
                              [Blank EXCEPT !.game_id = g, !.value = v,
                                            !.player_id = FirstPlayer(GetGamePlayers(g)),
                                            !.issuer = who])
             ELSE HttpReturn(r)
          /\ UNCHANGED failures
       \/ HttpStoreFails(r)
    /\ UNCHANGED <<wsVars, pokerVars, players, votes, games, ends, ledger, tainted>>

\* vote_route: cast_vote, the DELETE statement
HttpVoteDelete(r) ==
    /\ hpc[r] = "hv_delete"
    /\ \/ /\ votes' = CastVoteDelete(hlocals[r].game_id, hlocals[r].player_id)
          /\ HttpGoto(r, "hv_insert", hlocals[r])
          /\ UNCHANGED failures
       \/ /\ HttpStoreFails(r)
          /\ UNCHANGED votes
    /\ UNCHANGED <<wsVars, pokerVars, players, games, ends, ledger, tainted, reqs>>

\* vote_route: cast_vote, the INSERT statement (the reads that follow only feed the
\* page update)
HttpVoteInsert(r) ==
    /\ hpc[r] = "hv_insert"
    /\ LET l == hlocals[r] IN
       \/ /\ VoteKeyFree(l.game_id, l.player_id)
          /\ votes' = CastVoteInsert(l.game_id, l.player_id, l.value)
          /\ ledger' = LedgerCast(l.game_id, l.player_id, l.value)
          /\ HttpReturn(r)
          /\ UNCHANGED <<failures, tainted>>
       \/ /\ MayFail \/ ~VoteKeyFree(l.game_id, l.player_id)
          /\ failures' = IF VoteKeyFree(l.game_id, l.player_id) THEN failures + 1
                         ELSE failures
          /\ tainted' = tainted \cup {<<l.game_id, l.player_id>>}
          /\ HttpReturn(r)
          /\ UNCHANGED <<votes, ledger>>
    /\ UNCHANGED <<wsVars, pokerVars, players, games, ends, reqs>>

\* the story start_voting_route starts: let story = "Current Story"
CurrentStory == "Current Story"

\* start_voting_route: start_voting (the get_game before it is only logged, the reads
\* after it only feed the page update)
HttpStartVoting(r, g) ==
    /\ CanServe(r)
    /\ reqs' = reqs + 1
    /\ \/ /\ games' = SessionStartVoting(g, CurrentStory)
          /\ UNCHANGED failures
       \/ /\ MayFail
          /\ failures' = failures + 1
          /\ UNCHANGED games
    /\ UNCHANGED <<wsVars, pokerVars, hpc, hlocals, players, votes, ends, ledger, tainted>>

\* reveal_votes_route: reveal_votes (the reads after it only feed the page update)
HttpRevealVotes(r, g) ==
    /\ CanServe(r)
    /\ reqs' = reqs + 1
    /\ \/ /\ games' = SessionRevealVotes(g)
          /\ UNCHANGED failures
       \/ /\ MayFail
          /\ failures' = failures + 1
          /\ UNCHANGED games
    /\ UNCHANGED <<wsVars, pokerVars, hpc, hlocals, players, votes, ends, ledger, tainted>>

\* reset_voting_route: reset_voting, the DELETE statement
HttpResetVoting(r, g) ==
    /\ CanServe(r)
    /\ reqs' = reqs + 1
    /\ \/ /\ votes' = ResetVotingDelete(g)
          /\ ledger' = LedgerClear(g)
          /\ tainted' = {k \in tainted : k[1] # g}
          /\ HttpGoto(r, "hr_update", [Blank EXCEPT !.game_id = g])
          /\ UNCHANGED failures
       \/ /\ HttpStoreFails(r)
          /\ UNCHANGED <<votes, ledger, tainted>>
    /\ UNCHANGED <<wsVars, pokerVars, players, games, ends>>

\* reset_voting_route: reset_voting, the UPDATE statement (the reads after it only feed
\* the page update)
HttpResetUpdate(r) ==
    /\ hpc[r] = "hr_update"
    /\ \/ /\ games' = ResetVotingUpdate(hlocals[r].game_id)
          /\ HttpReturn(r)
          /\ UNCHANGED failures
       \/ /\ HttpStoreFails(r)
          /\ UNCHANGED games
    /\ UNCHANGED <<wsVars, pokerVars, players, votes, ends, ledger, tainted, reqs>>

NextHttp ==
    \/ \E r \in Reqs, g \in GameIds : HttpJoinGame(r, g)
    \/ \E r \in Reqs : HttpJoinAddPlayer(r)
    \/ \E r \in Reqs, g \in GameIds, v \in Values : HttpVote(r, g, v)
    \/ \E r \in Reqs : HttpVoteDelete(r)
    \/ \E r \in Reqs : HttpVoteInsert(r)
    \/ \E r \in Reqs, g \in GameIds : HttpStartVoting(r, g)
    \/ \E r \in Reqs, g \in GameIds : HttpRevealVotes(r, g)
    \/ \E r \in Reqs, g \in GameIds : HttpResetVoting(r, g)
    \/ \E r \in Reqs : HttpResetUpdate(r)

\* the HTTP routes alone, on the store of the initial state
SpecHttp == Init /\ [][NextHttp]_vars

\* ---------------------------------------------------------------- the game query
\* get_game (api) and get_game_route (app): session_manager.get_game; an unknown game or
\* an Err ends the request (seen: the votes of the game at this read)
HttpGetGame(r, g) ==
    /\ hpc[r] = "idle"
    /\ \/ /\ IF GetGame(g) # Nothing
             THEN HttpGoto(r, "hg_players",
                           [Blank EXCEPT !.game_id = g, !.game = GetGame(g),
                                         !.seen = <<GetGameVotes(g)>>])
             ELSE HttpReturn(r)
          /\ UNCHANGED failures
       \/ HttpStoreFails(r)
    /\ UNCHANGED <<wsVars, pokerVars, players, votes, games, ends, ledger, tainted, reqs>>

\* get_game_players(..).unwrap_or_default(); votes stay None unless the game read is
\* Revealed
HttpGetPlayers(r) ==
    /\ hpc[r] = "hg_players"
    /\ LET l == hlocals[r]
           next == IF l.game[1].state = "Revealed" THEN "hg_votes" ELSE "hg_done" IN
       \/ /\ HttpGoto(r, next, [l EXCEPT !.players = GetGamePlayers(l.game_id)])
          /\ UNCHANGED failures
       \/ /\ MayFail
          /\ failures' = failures + 1
          /\ HttpGoto(r, next, [l EXCEPT !.players = <<>>])
    /\ UNCHANGED <<wsVars, pokerVars, players, votes, games, ends, ledger, tainted, reqs>>

\* Some(get_game_votes(..).unwrap_or_default())
HttpGetVotes(r) ==
    /\ hpc[r] = "hg_votes"
    /\ LET l == hlocals[r] IN
       \/ /\ HttpGoto(r, "hg_done", [l EXCEPT !.votes = <<GetGameVotes(l.game_id)>>])
          /\ UNCHANGED failures
       \/ /\ MayFail
          /\ failures' = failures + 1
          /\ HttpGoto(r, "hg_done", [l EXCEPT !.votes = << <<>> >>])
    /\ UNCHANGED <<wsVars, pokerVars, players, votes, games, ends, ledger, tainted, reqs>>

\* the response (game, players, votes) is sent
HttpGetRespond(r) ==
    /\ hpc[r] = "hg_done"
    /\ HttpReturn(r)
    /\ UNCHANGED <<wsVars, pokerVars, players, votes, games, failures, ends, ledger,
                   tainted, reqs>>

NextQuery ==
    \/ NextHttp
    \/ \E r \in Reqs, g \in GameIds : HttpGetGame(r, g)
    \/ \E r \in Reqs : HttpGetPlayers(r)
    \/ \E r \in Reqs : HttpGetVotes(r)
    \/ \E r \in Reqs : HttpGetRespond(r)

\* the game query beside the HTTP routes that write
SpecQuery == Init /\ [][NextQuery]_vars

\* ---------------------------------------------------------------- PlanningPokerGame calls
\* a caller has run one method of the game: the history keeps the call and its result
Called(op, p, res) ==
    /\ call' = [op |-> op, player |-> p, ok |-> res.ok, before |-> poker]
    /\ UNCHANGED <<wsVars, httpVars, players, votes, games, failures, ends,
                   ledger, tainted>>

GameAddPlayer(p) ==
    /\ poker' = PokerAddPlayer(poker, p).game
    /\ Called("add_player", p, PokerAddPlayer(poker, p))

GameRemovePlayer(p) ==
    /\ poker' = PokerRemovePlayer(poker, p).game
    /\ Called("remove_player", p, PokerRemovePlayer(poker, p))

GameStartVoting(story) ==
    /\ poker' = PokerStartVoting(poker, story).game
    /\ Called("start_voting", None, PokerStartVoting(poker, story))

GameCastVote(p, v) ==
    /\ poker' = PokerCastVote(poker, p, v).game
    /\ Called("cast_vote", p, PokerCastVote(poker, p, v))

GameRevealVotes ==
    /\ poker' = PokerRevealVotes(poker).game
    /\ Called("reveal_votes", None, PokerRevealVotes(poker))

GameResetVoting ==
    /\ poker' = PokerResetVoting(poker).game
    /\ Called("reset_voting", None, PokerResetVoting(poker))

NextGame ==
    \/ \E p \in PlayerIds : GameAddPlayer(p)
    \/ \E p \in PlayerIds : GameRemovePlayer(p)
    \/ \E story \in Stories : GameStartVoting(story)
    \/ \E p \in PlayerIds, v \in Values : GameCastVote(p, v)
    \/ GameRevealVotes
    \/ GameResetVoting

\* one PlanningPokerGame and every sequence of calls on it
SpecGame == Init /\ [][NextGame]_vars

\* ---------------------------------------------------------------- game and store
\* the one player and the one value of the calls on the game in SpecReset
OnePlayer == {"p1"}
OneValue == {"5"}

\* calls on a PlanningPokerGame of one player, beside the HTTP routes on the store
NextReset ==
    \/ \E p \in OnePlayer : GameAddPlayer(p)
    \/ \E story \in Stories : GameStartVoting(story)
    \/ \E p \in OnePlayer, v \in OneValue : GameCastVote(p, v)
    \/ GameRevealVotes
    \/ GameResetVoting
    \/ NextHttp

\* the in-memory game and the persisted game side by side (they share no state)
SpecReset == Init /\ [][NextReset]_vars

\* ---------------------------------------------------------------- parallel fan-out
\* Two connections have joined g1 one after the other and stay bound to it; their
\* handlers run on worker threads of their own, so that two broadcast_to_game calls hold
\* read guards of the registry at the same time and each connection.sender.send of their
\* loops is a step of its own.
InitFanOut ==
    LET p1 == <<"c1", 1>>
        p2 == <<"c2", 1>>
        op1 == [conn |-> "c1", n |-> 1, kind |-> "JoinGame", game_id |-> "g1"]
        op2 == [conn |-> "c2", n |-> 1, kind |-> "JoinGame", game_id |-> "g1"]
        game == [id |-> "g1", state |-> "Waiting", current_story |-> None] IN
    /\ connections = [c \in Conns |-> [id |-> c, player_id |-> <<c, 1>>,
                                        game_id |-> "g1", sender |-> c]]
    /\ writer = None
    /\ sent = [c \in Conns |->
                 IF c = "c1"
                 THEN <<Envelope(GameJoined(game, <<[id |-> p1]>>), op1),
                        Envelope(PlayerJoined([id |-> p2]), op2)>>
                 ELSE <<Envelope(GameJoined(game, <<[id |-> p1], [id |-> p2]>>), op2)>>]
    /\ outAlive = [c \in Conns |-> TRUE]
    /\ players = <<[id |-> p1, game_id |-> "g1"], [id |-> p2, game_id |-> "g1"]>>
    /\ votes = <<>>
    /\ games = [g \in ExistingGames |-> [state |-> "Waiting", current_story |-> None]]
    /\ pc = [t \in Tasks |-> IF t[2] = "main" THEN "select" ELSE "idle"]
    /\ locals = [t \in Tasks |-> Blank]
    /\ cmds = [c \in Conns |-> 1]
    /\ failures = 0
    /\ ends = 0
    /\ applied = <<>>
    /\ ledger = {}
    /\ tainted = {}
    /\ hpc = [r \in Reqs |-> "idle"]
    /\ hlocals = [r \in Reqs |-> Blank]
    /\ reqs = 0
    /\ poker = PokerNew
    /\ call = [op |-> "new", player |-> None, ok |-> TRUE, before |-> PokerNew]
    /\ calls = 0

\* connections.iter(): the same order for every loop over an unchanged map
IterOrder == <<"c1", "c2">>

\* the connection the loop of a broadcast visits next
NextRecipient(rs) ==
    IterOrder[CHOOSE i \in 1..Len(IterOrder) :
                 /\ IterOrder[i] \in rs
                 /\ \A j \in 1..(i - 1) : IterOrder[j] \notin rs]

\* broadcast_to_game, one turn of its loop under the read guard: sender.send for the
\* next recipient, or the end of the loop and the return to the caller
BroadcastSend(t) ==
    /\ pc[t] = "broadcast"
    /\ LockFree
    /\ LET l == locals[t]
           rs == Recipients(l.game_id, l.exclude) \ l.done IN
       IF rs = {}
       THEN /\ Goto(t, l.ret, Blank)
            /\ UNCHANGED sent
       ELSE LET d == NextRecipient(rs) IN
            /\ sent' = IF SinkOpen(connections[d].sender)
                       THEN [sent EXCEPT ![connections[d].sender] =
                                            Append(@, Envelope(l.msg, l.op))]
                       ELSE sent
            /\ locals' = [locals EXCEPT ![t].done = @ \cup {d}]
            /\ UNCHANGED pc
    /\ UNCHANGED <<connections, writer, outAlive, players, votes, games, cmds,
                   failures, applied, ledger, tainted, ends, httpVars, pokerVars, calls>>

NextFanOut ==
    \/ \E t \in Tasks : BroadcastSend(t)
    \/ \E c \in Conns, v \in Values : HandleCastVote(c, v)
    \/ \E c \in Conns : CastDelete(c)
    \/ \E c \in Conns : CastInsert(c)
    \/ \E c \in Conns, story \in Stories : HandleStartVoting(c, story)
    \/ \E c \in Conns : StartClearVotes(c)
    \/ \E c \in Conns : HandleRevealVotes(c)
    \/ \E c \in Conns : RevealGetVotes(c)
    \/ \E c \in Conns : HandleResetVoting(c)
    \/ \E c \in Conns : ResetClearVotes(c)

SpecFanOut == InitFanOut /\ [][NextFanOut]_vars

\* ---------------------------------------------------------------- the manager's methods
\* ConnectionManager seen through its public methods: a caller per connection id calls
\* add_connection and remove_connection with that id, one call after the other, and a
\* second caller per id hands JoinGame messages for existing games to handle_message,
\* whether or not the id is in the registry
InitApi ==
    /\ connections = [c \in {} |-> None]
    /\ writer = None
    /\ sent = [c \in Conns |-> <<>>]
    /\ outAlive = [c \in Conns |-> FALSE]
    /\ players = <<>>
    /\ votes = <<>>
    /\ games = [g \in ExistingGames |-> [state |-> "Waiting", current_story |-> None]]
    /\ pc = [t \in Tasks |-> IF t[2] = "main" THEN "api" ELSE "idle"]
    /\ locals = [t \in Tasks |-> Blank]
    /\ cmds = [c \in Conns |-> 0]
    /\ failures = 0
    /\ ends = 0
    /\ applied = <<>>
    /\ ledger = {}
    /\ tainted = {}
    /\ hpc = [r \in Reqs |-> "idle"]
    /\ hlocals = [r \in Reqs |-> Blank]
    /\ reqs = 0
    /\ poker = PokerNew
    /\ call = [op |-> "new", player |-> None, ok |-> TRUE, before |-> PokerNew]
    /\ calls = 0

\* add_connection(c, tx) with the sender of a channel whose receiver the caller holds:
\* connections.insert under the write guard, whatever the map held for c
ApiAddConnection(c) ==
    /\ pc[Main(c)] \in {"api", "done"}
    /\ calls < MaxCalls
    /\ LockFree
    /\ calls' = calls + 1
    /\ connections' = MapInsert(connections, c, NewConnection(c))
    /\ outAlive' = [outAlive EXCEPT ![c] = TRUE]
    /\ pc' = [pc EXCEPT ![Main(c)] = "api"]
    /\ UNCHANGED <<writer, sent, players, votes, games, locals, cmds,
                   failures, applied, ledger, tainted, ends, httpVars, pokerVars>>

\* remove_connection(c) is called
ApiCallRemove(c) ==
    /\ pc[Main(c)] \in {"api", "done"}
    /\ calls < MaxCalls
    /\ calls' = calls + 1
    /\ pc' = [pc EXCEPT ![Main(c)] = "remove_connection"]
    /\ UNCHANGED <<connections, writer, sent, outAlive, players, votes, games, locals,
                   cmds, failures, applied, ledger, tainted, ends, httpVars, pokerVars>>

NextApi ==
    \/ \E c \in Conns : ApiAddConnection(c)
    \/ \E c \in Conns : ApiCallRemove(c)
    \/ \E c \in Conns : RemoveConnection(c)
    \/ \E c \in Conns : DeleteSession(c)
    \/ \E t \in Tasks : Broadcast(t)
    \/ \E c \in Conns : MessageWaitsForLock(c)
    \/ \E c \in Conns, g \in ExistingGames : HandleJoinGame(c, g)
    \/ \E c \in Conns : JoinAddPlayer(c)
    \/ \E c \in Conns : JoinGetGame(c)
    \/ \E c \in Conns : JoinGetPlayers(c)
    \/ \E c \in Conns : JoinSend(c)

SpecApi == InitApi /\ [][NextApi]_vars

\* ---------------------------------------------------------------- commands of any id
\* handle_message called with every ClientMessage for ids that are in the registry or
\* not: add_connection registers an id at any time, and no connection is removed
NextCommands ==
    \/ \E c \in Conns : ApiAddConnection(c)
    \/ \E t \in Tasks : Broadcast(t)
    \/ \E c \in Conns, g \in ExistingGames : HandleJoinGame(c, g)
    \/ \E c \in Conns : JoinAddPlayer(c)
    \/ \E c \in Conns : JoinGetGame(c)
    \/ \E c \in Conns : JoinGetPlayers(c)
    \/ \E c \in Conns : JoinSend(c)
    \/ \E c \in Conns : HandleLeaveGame(c)
    \/ \E c \in Conns : LeaveRemovePlayer(c)
    \/ \E c \in Conns, v \in Values : HandleCastVote(c, v)
    \/ \E c \in Conns : CastDelete(c)
    \/ \E c \in Conns : CastInsert(c)
    \/ \E c \in Conns, story \in Stories : HandleStartVoting(c, story)
    \/ \E c \in Conns : StartClearVotes(c)
    \/ \E c \in Conns : HandleRevealVotes(c)
    \/ \E c \in Conns : RevealGetVotes(c)
    \/ \E c \in Conns : HandleResetVoting(c)
    \/ \E c \in Conns : ResetClearVotes(c)

SpecCommands == InitApi /\ [][NextCommands]_vars

\* ---------------------------------------------------------------- properties
\* the envelopes of a sink
Envelopes(c) == Range(sent[c])

\* the place of op in the store order of the start/reveal/reset commands
Pos(op) == CHOOSE k \in 1..Len(applied) : applied[k] = op

StateKinds == {"StartVoting", "RevealVotes", "ResetVoting"}

\* the main task of c has been through select! and has removed c from the registry
Removed(c) == pc[Main(c)] \in {"broadcast", "delete_session", "done"}

\* C1: every connection receives the VotingStarted / VotesRevealed / VotingReset events
\* of one existing game in the order in which their commands reached the store.
C1_EventsInStoreOrder ==
    \A c \in Conns : \A i, j \in 1..Len(sent[c]) :
        (/\ i < j
         /\ sent[c][i].op.kind \in StateKinds
         /\ sent[c][j].op.kind \in StateKinds
         /\ sent[c][i].op.game_id \in ExistingGames
         /\ sent[c][i].op.game_id = sent[c][j].op.game_id)
        => Pos(sent[c][i].op) < Pos(sent[c][j].op)

\* C2: a remove_connection that has started is never blocked: its next statement (the
\* broadcast of PlayerLeft, then delete_session and the release of the guard) can run.
C2_RemoveConnectionNotBlocked ==
    \A c \in Conns :
        pc[Main(c)] \in {"broadcast", "delete_session"}
            => ENABLED (Broadcast(Main(c)) \/ DeleteSession(c))

\* C3: a broadcast appends the message to the sink of exactly the registered
\* connections bound to the game and different from the excluded one (a sink whose
\* receiver is gone takes nothing); every other sink is left as it was.
C3_BroadcastFanOut ==
    [][\A t \in Tasks :
          (pc[t] = "broadcast" /\ pc'[t] # "broadcast")
          => \A d \in Conns :
                sent'[d] = IF /\ d \in DOMAIN connections
                              /\ connections[d].game_id = locals[t].game_id
                              /\ d # locals[t].exclude
                              /\ SinkOpen(d)
                           THEN Append(sent[d], Envelope(locals[t].msg, locals[t].op))
                           ELSE sent[d]]_vars

\* a broadcast has reached one connection and has skipped a registered connection that
\* is unbound or bound to another game
W3_BroadcastSkipsOtherGame ==
    \E c, d \in Conns :
        /\ c # d
        /\ Registered(d)
        /\ \E e \in Envelopes(c) :
              /\ e.op.conn # c
              /\ connections[d].game_id # e.op.game_id
              /\ ~\E x \in Envelopes(d) : x.op = e.op

\* C4: the PlayerJoined of a join goes to every other connection bound to the game and
\* never into the sink of the joining connection.
C4_PlayerJoinedExcludesJoiner ==
    [][\A c \in Conns :
          (/\ pc[In(c)] = "broadcast"
           /\ locals[In(c)].op.kind = "JoinGame"
           /\ pc'[In(c)] # "broadcast")
          => /\ sent'[c] = sent[c]
             /\ \A d \in Conns \ {c} :
                   (/\ Registered(d) /\ connections[d].game_id = locals[In(c)].game_id
                    /\ SinkOpen(d))
                   => /\ Len(sent'[d]) = Len(sent[d]) + 1
                      /\ sent'[d][Len(sent'[d])].op = locals[In(c)].op
                      /\ sent'[d][Len(sent'[d])].msg.type = "PlayerJoined"]_vars

\* the joiner holds its GameJoined, another connection holds the PlayerJoined of that join
W4_OtherGotPlayerJoined ==
    \E c, d \in Conns :
        /\ c # d
        /\ \E e \in Envelopes(d) : e.msg.type = "PlayerJoined" /\ e.op.conn = c
        /\ \E e \in Envelopes(c) : e.msg.type = "GameJoined" /\ e.op.conn = c
        /\ ~\E e \in Envelopes(c) : e.msg.type = "PlayerJoined" /\ e.op.conn = c

\* a message has a field that holds vote values
CarriesVoteValue(m) == "value" \in DOMAIN m \/ "votes" \in DOMAIN m

\* C5: the only event of a CastVote is VoteCast{player_id, has_voted: true}, and no
\* message that a connection receives before its first VotesRevealed has a field with a
\* vote value. No step of the model reads a vote value (values are only copied), so
\* two runs that differ in the values alone deliver the same messages up to there.
C5_VoteValuesWithheld ==
    \A c \in Conns : \A i \in 1..Len(sent[c]) :
        /\ sent[c][i].op.kind = "CastVote"
              => /\ DOMAIN sent[c][i].msg = {"type", "player_id", "has_voted"}
                 /\ sent[c][i].msg.type = "VoteCast"
                 /\ sent[c][i].msg.has_voted = TRUE
        /\ (\A j \in 1..i : sent[c][j].msg.type # "VotesRevealed")
              => ~CarriesVoteValue(sent[c][i].msg)

\* a connection has received a VoteCast while a vote is stored and nothing was revealed
W5_VoteCastReceived ==
    \E c \in Conns :
        /\ \E e \in Envelopes(c) : e.msg.type = "VoteCast"
        /\ \A e \in Envelopes(c) : e.msg.type # "VotesRevealed"
        /\ Len(votes) > 0

\* the votes of a list have pairwise different players
OnePerPlayer(vs) ==
    \A i, j \in 1..Len(vs) : vs[i].player_id = vs[j].player_id => i = j

MidCast(g, p) ==
    \E t \in Tasks : pc[t] = "cv_insert" /\ locals[t].game_id = g /\ locals[t].player_id = p

\* C7: no lost update: the vote of every successful cast since the last clear is in
\* the store, whatever casts of other players ran at the same time (the player's own
\* later cast may be half done or have failed).
C7_NoLostVote ==
    \A r \in ledger :
        (~MidCast(r.game_id, r.player_id) /\ <<r.game_id, r.player_id>> \notin tainted)
        => \E i \in 1..Len(votes) : votes[i] = r

\* two handlers of CastVote of different players of one game are both between their
\* INSERT and their broadcast, and both votes are stored
W7_TwoConcurrentCasts ==
    \E c, d \in Conns :
        /\ c # d
        /\ pc[In(c)] = "broadcast" /\ locals[In(c)].op.kind = "CastVote"
        /\ pc[In(d)] = "broadcast" /\ locals[In(d)].op.kind = "CastVote"
        /\ locals[In(c)].game_id = locals[In(d)].game_id
        /\ Cardinality({r \in ledger : r.game_id = locals[In(c)].game_id}) = 2
        /\ Cardinality(Range(GetGameVotes(locals[In(c)].game_id))) = 2

C9_BindingInRoster ==
    \A c \in Conns :
        (/\ Registered(c)
         /\ pc[In(c)] \in {"idle", "ended"}
         /\ connections[c].game_id # None
         /\ connections[c].player_id # NoPlayer)
        => \E i \in 1..Len(players) :
              /\ players[i].id = connections[c].player_id
              /\ players[i].game_id = connections[c].game_id

\* C10: once remove_connection has removed a connection, its incoming task takes no
\* further message.
C10_NoMessageAfterRemove ==
    [][\A c \in Conns : Removed(c) => cmds'[c] = cmds[c]]_vars

\* C11: PlanningPokerGame::start_voting returns Ok exactly when the state was Waiting;
\* when it returns Err the game (state, current_story, votes, players) is as before.
C11_StartVotingOnlyFromWaiting ==
    call.op = "start_voting"
        => /\ call.ok <=> call.before.state = "Waiting"
           /\ ~call.ok => poker = call.before

\* start_voting was refused on a revealed game that holds a story and a vote
W11_StartVotingRefused ==
    /\ call.op = "start_voting" /\ ~call.ok
    /\ poker.state = "Revealed"
    /\ poker.current_story # None
    /\ DOMAIN poker.votes # {}

\* C12: PlanningPokerGame::cast_vote returns Ok exactly when the state was Voting and
\* the player was in the roster; when it returns Err the votes are as before.
C12_CastVoteOnlyWhenVotingAndInRoster ==
    call.op = "cast_vote"
        => /\ call.ok <=> (call.before.state = "Voting"
                           /\ call.player \in call.before.players)
           /\ ~call.ok => poker.votes = call.before.votes

\* cast_vote was refused for a player outside the roster while votes were recorded
W12_CastVoteRefusedForStranger ==
    /\ call.op = "cast_vote" /\ ~call.ok
    /\ call.before.state = "Voting"
    /\ call.player \notin call.before.players
    /\ DOMAIN poker.votes # {}

\* C13: PlanningPokerGame::reveal_votes returns Ok exactly when the state was Voting;
\* then the state is Revealed and votes, players and story are as before; when it
\* returns Err the game is as before.
C13_RevealOnlyFromVoting ==
    call.op = "reveal_votes"
        => /\ call.ok <=> call.before.state = "Voting"
           /\ call.ok => poker = [call.before EXCEPT !.state = "Revealed"]
           /\ ~call.ok => poker = call.before

\* reveal_votes has revealed a game that holds a vote
W13_RevealedWithVotes ==
    /\ call.op = "reveal_votes" /\ call.ok
    /\ poker.state = "Revealed"
    /\ DOMAIN poker.votes # {}

C15_RemovePlayerRemovesOwnVote ==
    call.op = "remove_player"
        => /\ call.ok
           /\ poker.players = call.before.players \ {call.player}
           /\ DOMAIN poker.votes = DOMAIN call.before.votes \ {call.player}
           /\ \A q \in DOMAIN poker.votes : poker.votes[q] = call.before.votes[q]
           /\ AllPlayersVoted(poker)
                 <=> Cardinality(poker.players) = Cardinality(DOMAIN poker.votes)
           /\ AllPlayersVoted(poker) <=> \A q \in poker.players : q \in DOMAIN poker.votes

\* a player who had voted was removed while the votes of two others stayed, and the
\* remaining players have all voted
W15_RemovedVoterAmongVoters ==
    /\ call.op = "remove_player"
    /\ call.player \in DOMAIN call.before.votes
    /\ Cardinality(DOMAIN poker.votes) = 2
    /\ AllPlayersVoted(poker)

\* C16: every recorded vote of a PlanningPokerGame belongs to a player of its roster.
C16_VotesOfRosterPlayers == DOMAIN poker.votes \subseteq poker.players

\* a player who had voted has been removed and another vote is still recorded
W16_VoterRemoved ==
    /\ call.op = "remove_player"
    /\ call.player \in DOMAIN call.before.votes
    /\ call.player \notin poker.players
    /\ DOMAIN poker.votes # {}

\* C17: reveal_votes succeeds in Voting whatever votes are recorded, only reveal_votes
\* moves the game to Revealed, and cast_vote never changes the state.
C17_RevealIsExplicit ==
    /\ (call.op = "reveal_votes" /\ call.before.state = "Voting")
          => (call.ok /\ poker.state = "Revealed")
    /\ (poker.state = "Revealed" /\ call.before.state # "Revealed")
          => call.op = "reveal_votes"
    /\ call.op = "cast_vote" => poker.state = call.before.state

\* the last missing vote has been cast and the game is still Voting
W17_LastVoteCastStillVoting ==
    /\ call.op = "cast_vote" /\ call.ok
    /\ ~AllPlayersVoted(call.before)
    /\ AllPlayersVoted(poker)
    /\ Cardinality(poker.players) > 1
    /\ poker.state = "Voting"

\* the connection has received GameJoined and is bound to a player that is in the
\* roster of the game it is bound to
Joined(c) ==
    /\ Registered(c)
    /\ \E e \in Envelopes(c) : e.msg.type = "GameJoined"
    /\ \E i \in 1..Len(players) :
          /\ players[i].id = connections[c].player_id
          /\ players[i].game_id = connections[c].game_id

\* C18: when the handler of a LeaveGame of a joined connection finishes, the player is
\* in no roster row of the game, has no vote in the game, and PlayerLeft{player_id} has
\* been appended to the sink of every other connection bound to the game.
C18_LeaveRemovesPlayerAndVote ==
    [][\A c \in Conns :
          (/\ pc[In(c)] = "broadcast"
           /\ locals[In(c)].op.kind = "LeaveGame"
           /\ Joined(c)
           /\ pc'[In(c)] = "idle")
          => LET g == locals[In(c)].game_id
                 p == locals[In(c)].msg.player_id IN
             /\ ~\E i \in 1..Len(players') :
                   players'[i].game_id = g /\ players'[i].id = p
             /\ ~\E i \in 1..Len(votes') :
                   votes'[i].game_id = g /\ votes'[i].player_id = p
             /\ \A d \in Conns \ {c} :
                   (Registered(d) /\ connections[d].game_id = g /\ SinkOpen(d))
                   => sent'[d] = Append(sent[d], Envelope(PlayerLeft(p), locals[In(c)].op))]_vars

\* C19: for a CastVote command of a player of the game, cast_vote stores a vote, and
\* the handler goes on to broadcast VoteCast, only while the persisted state of the
\* game is Voting.
C19_CastVoteOnlyWhileVoting ==
    [][\A c \in Conns :
          (/\ pc[In(c)] = "cv_insert"
           /\ Joined(c)
           /\ (votes' # votes \/ pc'[In(c)] = "broadcast"))
          => /\ locals[In(c)].game_id \in DOMAIN games
             /\ games[locals[In(c)].game_id].state = "Voting"]_vars

\* C20: for a RevealVotes command of a player of the game, handle_reveal_votes goes on
\* to broadcast VotesRevealed only while the persisted state of the game is Voting, and the persisted state becomes Revealed only from
\* Voting.
C20_RevealOnlyWhileVoting ==
    [][/\ \A c \in Conns :
             (pc[In(c)] = "rv_get_votes" /\ Joined(c) /\ pc'[In(c)] = "broadcast")
             => /\ locals[In(c)].game_id \in DOMAIN games
                /\ games[locals[In(c)].game_id].state = "Voting"
       /\ \A g \in DOMAIN games :
             (games'[g].state = "Revealed" /\ games[g].state # "Revealed")
             => games[g].state = "Voting"]_vars

\* the games row the event of a start/reveal/reset command announces
Announced(msg, row) ==
    CASE msg.type = "VotingStarted" -> row.state = "Voting" /\ row.current_story = msg.story
      [] msg.type = "VotesRevealed" -> row.state = "Revealed"
      [] msg.type = "VotingReset" -> row.state = "Waiting" /\ row.current_story = None
      [] OTHER -> TRUE

\* C21: when the handler of a StartVoting, RevealVotes or ResetVoting of a joined
\* connection broadcasts its event, the games row of the game is already Voting with
\* the story of the event, Revealed, or Waiting with no story, and get_game right after
\* the broadcast returns that row.
C21_StoreUpdatedBeforeEvent ==
    [][\A c \in Conns :
          (/\ pc[In(c)] = "broadcast"
           /\ locals[In(c)].op.kind \in StateKinds
           /\ locals[In(c)].game_id \in ExistingGames
           /\ Joined(c)
           /\ pc'[In(c)] = "idle")
          => /\ Announced(locals[In(c)].msg, games[locals[In(c)].game_id])
             /\ Announced(locals[In(c)].msg, games'[locals[In(c)].game_id])]_vars

\* C22: right after start_voting of the session manager has moved the games row of a
\* game to Voting, the votes table holds no row of that game.
C22_StartVotingClearsVotes ==
    [][\A g \in DOMAIN games :
          (games[g].state # "Voting" /\ games'[g].state = "Voting")
          => RowsOfGame(votes', g) = <<>>]_vars

\* the positions of handle_join_game after its first step
JoinLabels == {"jg_add_player", "jg_get_game", "jg_get_players", "jg_send"}

\* C23: no step of the handler of a JoinGame for a game id that is not in the games
\* table changes the registry (the binding of the issuing connection included) or the
\* players table.
C23_JoinMissingGameChangesNothing ==
    [][\A c \in Conns :
          LET first == pc[In(c)] \notin JoinLabels /\ pc'[In(c)] = "jg_add_player"
              later == pc[In(c)] \in JoinLabels /\ pc'[In(c)] # pc[In(c)]
              g == IF first THEN locals'[In(c)].game_id ELSE locals[In(c)].game_id IN
          ((first \/ later) /\ g \notin DOMAIN games)
          => connections' = connections /\ players' = players]_vars

\* the handler of c returns in this step because a store call returned Err
FailsInStore(c) ==
    /\ failures' = failures + 1
    /\ pc[In(c)] \notin {"idle", "ended", "unspawned"}
    /\ pc'[In(c)] = "idle"

\* the handler of c returns in this step because get_game found no game
FailsNotFound(c) ==
    /\ pc[In(c)] = "jg_send"
    /\ locals[In(c)].game = Nothing
    /\ pc'[In(c)] = "idle"

\* C24: when the handler of a command of a registered connection with an open sink
\* ends in failure (a store call returns Err, or the game is not found), one Error
\* event of that command is appended to the sink of that connection, and no sink of
\* another connection holds an event of that command.
C24_FailureGivesErrorToOriginator ==
    [][\A c \in Conns :
          ((FailsInStore(c) \/ FailsNotFound(c)) /\ Registered(c) /\ SinkOpen(c))
          => /\ Len(sent'[c]) = Len(sent[c]) + 1
             /\ sent'[c][Len(sent'[c])].msg.type = "Error"
             /\ sent'[c][Len(sent'[c])].op = locals[In(c)].op
             /\ \A d \in Conns \ {c} :
                   ~\E e \in Range(sent'[d]) : e.op = locals[In(c)].op]_vars

\* a store call of the handler of c returns Err in this step
StoreCallFails(c) ==
    /\ failures' = failures + 1
    /\ pc'[In(c)] # pc[In(c)]

\* the events this step has appended to the sink of d
Appended(d) == {sent'[d][i] : i \in (Len(sent[d]) + 1)..Len(sent'[d])}

\* C25: when a store call of a command returns Err, the handler returns at once, no
\* sink holds an event of that command and none is appended; and no event of a
\* command is appended once its handler has returned.
C25_StoreFailureEnqueuesNothing ==
    [][\A c \in Conns :
          /\ StoreCallFails(c)
                => /\ pc'[In(c)] = "idle"
                   /\ sent' = sent
                   /\ \A d \in Conns :
                         ~\E e \in Range(sent[d]) : e.op = locals[In(c)].op
          /\ pc[In(c)] \in {"idle", "ended"}
                => \A d \in Conns : \A e \in Appended(d) :
                      e.op.conn = c => e.op.kind = "Disconnect"]_vars

\* two connections have joined one game, both sinks are open, and the last command of
\* one of them has ended on a store error: no sink holds an event of it
W25_FailedCommandOfJoinedConnection ==
    \E c, d \in Conns :
        /\ c # d
        /\ failures = 1
        /\ Joined(c) /\ Joined(d)
        /\ connections[c].game_id = connections[d].game_id
        /\ SinkOpen(c) /\ SinkOpen(d)
        /\ pc[In(c)] = "idle" /\ cmds[c] >= 2
        /\ \A x \in Conns :
              ~\E e \in Envelopes(x) : e.op.conn = c /\ e.op.n = cmds[c]

\* C26: add_connection with an id that is in the registry leaves the entry of that id
\* (binding and sink) as it is; add_connection with a fresh id adds an entry with no
\* player and no game, and in both cases no other entry changes.
C26_AddConnectionKeepsExisting ==
    [][\A c \in Conns :
          ApiAddConnection(c)
          => /\ IF Registered(c)
                THEN connections'[c] = connections[c]
                ELSE /\ connections'[c].player_id = NoPlayer
                     /\ connections'[c].game_id = None
             /\ \A d \in DOMAIN connections \ {c} : connections'[d] = connections[d]]_vars

\* the handler of a JoinGame of c takes a step
JoinStep(c) ==
    /\ \/ pc[In(c)] \in JoinLabels
       \/ pc[In(c)] = "broadcast" /\ locals[In(c)].op.kind = "JoinGame"
    /\ pc'[In(c)] # pc[In(c)]

\* C27: a step of the handler of a JoinGame for a connection id that is not in the
\* registry inserts no row into the players table and appends no event to any sink.
C27_JoinOfUnknownConnectionDoesNothing ==
    [][\A c \in Conns :
          (JoinStep(c) /\ ~Registered(c))
          => players' = players /\ sent' = sent]_vars

\* C28: a JoinGame of a registered connection puts the game of the command in the one
\* binding of the connection, whatever the binding was; and a broadcast for a game
\* reaches a registered connection with an open sink (other than the excluded one)
\* exactly when its binding at that moment is that game.
C28_OneBindingLastJoinWins ==
    [][\A c \in Conns :
          /\ (/\ pc[In(c)] \notin JoinLabels /\ pc'[In(c)] = "jg_add_player"
              /\ Registered(c))
                => /\ connections'[c].game_id = locals'[In(c)].game_id
                   /\ connections'[c].player_id = locals'[In(c)].player_id
          /\ \A t \in Tasks :
                (/\ pc[t] = "broadcast" /\ pc'[t] # "broadcast"
                 /\ Registered(c) /\ SinkOpen(c) /\ c # locals[t].exclude)
                => (Len(sent'[c]) = Len(sent[c]) + 1
                        <=> connections[c].game_id = locals[t].game_id)]_vars

\* c was bound to a game and has joined another one; the PlayerJoined of a later join
\* of the first game has not reached c, the event of a command for the second game has
W28_ReboundConnection ==
    \E c, d \in Conns : \E g, h \in GameIds :
        /\ c # d /\ g # h
        /\ ends = 0
        /\ Registered(c) /\ Registered(d)
        /\ connections[c].game_id = h
        /\ \E e \in Envelopes(c) : e.msg.type = "GameJoined" /\ e.op.game_id = g
        /\ pc[In(d)] = "idle"
        /\ \E e \in Envelopes(d) :
              /\ e.msg.type = "GameJoined" /\ e.op.conn = d /\ e.op.game_id = g
              /\ Len(e.msg.players) = 2
              /\ ~\E x \in Envelopes(c) : x.op = e.op
        /\ \E e \in Envelopes(c) : e.op.game_id = h /\ e.op.kind \in StateKinds

\* C29: remove_connection for an id that is not in the registry leaves the registry and
\* every sink as they are, from the removal under the write guard to delete_session and
\* the return; it starts no broadcast.
C29_RemoveUnknownIsNoOp ==
    [][\A c \in Conns :
          /\ (/\ pc[Main(c)] = "remove_connection"
              /\ pc'[Main(c)] # "remove_connection"
              /\ ~Registered(c))
                => /\ connections' = connections
                   /\ sent' = sent
                   /\ pc'[Main(c)] = "delete_session"
                   /\ locals'[Main(c)].seen = <<FALSE>>
          /\ (/\ pc[Main(c)] = "delete_session"
              /\ locals[Main(c)].seen = <<FALSE>>
              /\ pc'[Main(c)] # "delete_session")
                => /\ connections' = connections
                   /\ sent' = sent
                   /\ pc'[Main(c)] = "done"]_vars

\* c was added and removed; a second remove_connection for c has found no entry and is
\* at its delete_session
W29_SecondRemove ==
    \E c \in Conns :
        /\ outAlive[c] /\ ~Registered(c)
        /\ calls = 3
        /\ pc[Main(c)] = "delete_session"
        /\ locals[Main(c)].seen = <<FALSE>>

\* C30: a broadcast that meets a recipient whose sink is closed still appends the
\* message to the sink of every recipient whose sink is open, leaves the closed sinks
\* as they are, and returns to its caller.
C30_BroadcastSurvivesClosedSink ==
    [][\A t \in Tasks :
          LET rs == Recipients(locals[t].game_id, locals[t].exclude) IN
          (/\ pc[t] = "broadcast" /\ pc'[t] # "broadcast"
           /\ \E d \in rs : ~SinkOpen(d))
          => /\ \A d \in rs :
                   sent'[d] = IF SinkOpen(d)
                              THEN Append(sent[d], Envelope(locals[t].msg, locals[t].op))
                              ELSE sent[d]
             /\ pc'[t] = locals[t].ret]_vars

\* the outgoing_task of d is over and d is still in the registry; the VoteCast of a
\* CastVote of d is in the sink of another connection and not in the sink of d
W30_VoteCastPastClosedSink ==
    \E c, d \in Conns :
        /\ c # d
        /\ Registered(d) /\ ~SinkOpen(d)
        /\ pc[In(d)] = "idle"
        /\ \E e \in Envelopes(c) :
              /\ e.op.conn = d /\ e.op.kind = "CastVote"
              /\ ~\E x \in Envelopes(d) : x.op = e.op

\* e is the GameJoined of a finished join of c to game g
JoinedBy(e, c, g) ==
    /\ e.msg.type = "GameJoined"
    /\ e.op.conn = c /\ e.op.game_id = g
    /\ ~(pc[In(c)] = "broadcast" /\ locals[In(c)].op = e.op)

\* C31: when two connections have finished a join to the same game, the first still
\* registered with an open sink and bound by that join, the player of the second is in
\* the GameJoined snapshot of the first or the first holds the PlayerJoined of that
\* player.
C31_JoinersKnowEachOther ==
    \A c, d \in Conns : \A g \in ExistingGames :
        \A ec \in Envelopes(c) : \A ed \in Envelopes(d) :
            (/\ c # d
             /\ JoinedBy(ec, c, g) /\ JoinedBy(ed, d, g)
             /\ Registered(c) /\ SinkOpen(c)
             /\ connections[c].player_id = <<c, ec.op.n>>)
            => \/ <<d, ed.op.n>> \in Ids(ec.msg.players)
               \/ \E x \in Envelopes(c) :
                     x.msg.type = "PlayerJoined" /\ x.msg.player.id = <<d, ed.op.n>>

\* two joins of one game have overlapped and are finished: the snapshot of the first
\* joiner holds its own player only, the snapshot of the second holds both, and each
\* holds the PlayerJoined of the other
W31_OverlappingJoins ==
    \E c, d \in Conns : \E ec \in Envelopes(c) : \E ed \in Envelopes(d) :
        /\ c # d
        /\ JoinedBy(ec, c, "g1") /\ JoinedBy(ed, d, "g1")
        /\ Len(ec.msg.players) = 1 /\ Len(ed.msg.players) = 2
        /\ \E x \in Envelopes(c) : x.msg.type = "PlayerJoined" /\ x.op = ed.op
        /\ \E x \in Envelopes(d) : x.msg.type = "PlayerJoined" /\ x.op = ec.op

\* C32: no task is at an await other than the acquisition of the registry lock itself
\* while it holds the write guard: the holder is neither at its broadcast (a second
\* acquisition of the lock) nor at delete_session (a store call).
C32_NoAwaitUnderWriteGuard ==
    \A c \in Conns :
        writer = c => pc[Main(c)] \notin {"broadcast", "delete_session"}

\* the row this step has appended to the votes table, if any
NewVote == IF Len(votes') > 0 /\ Len(votes') = Len(votes) + 1
           THEN <<votes'[Len(votes')]>> ELSE Nothing

\* C33: the vote row that a cast stores carries the id of the player who issued the
\* command: the player of the request for vote_route, the player the connection is
\* bound to for handle_cast_vote.
C33_VoteBelongsToIssuer ==
    [][/\ \A r \in Reqs :
             (hpc[r] = "hv_insert" /\ hpc'[r] = "idle" /\ NewVote # Nothing)
             => NewVote[1].player_id = hlocals[r].issuer
       /\ \A c \in Conns :
             (/\ pc[In(c)] = "cv_insert" /\ pc'[In(c)] = "broadcast"
              /\ NewVote # Nothing /\ Registered(c))
             => NewVote[1].player_id = connections[c].player_id]_vars

\* C34: the response of the game query holds votes exactly when the game it read is
\* Revealed; and every vote row in the response has been readable while the games row
\* was Revealed: the row is Revealed when the votes are read, or the vote was in the
\* table when the row was read as Revealed, or it was cast while the row was Revealed.
C34_QueryExposesVotesOnlyRevealed ==
    [][\A r \in Reqs :
          (hpc[r] # "hg_done" /\ hpc'[r] = "hg_done")
          => LET resp == hlocals'[r]
                 rows == RowsOfGame(votes, resp.game_id) IN
             /\ resp.votes # Nothing <=> resp.game[1].state = "Revealed"
             /\ (resp.votes # Nothing /\ resp.votes[1] # <<>>)
                   => \A i \in 1..Len(rows) :
                         \/ games[resp.game_id].state = "Revealed"
                         \/ rows[i].during = "Revealed"
                         \/ VoteOf(rows[i]) \in Range(resp.seen[1])]_vars

\* the commands whose event is broadcast to the whole game
BroadcastKinds == {"CastVote", "StartVoting", "RevealVotes", "ResetVoting"}

\* C35: two connections bound to one game hold the broadcast events of that game in
\* the same relative order.
C35_SameOrderAtEveryConnection ==
    \A c, d \in Conns :
        \A i, j \in 1..Len(sent[c]) : \A k, l \in 1..Len(sent[d]) :
            (/\ i < j
             /\ sent[c][i].op.kind \in BroadcastKinds
             /\ sent[c][j].op.kind \in BroadcastKinds
             /\ sent[c][i].op.game_id = sent[c][j].op.game_id
             /\ sent[d][k].op = sent[c][i].op
             /\ sent[d][l].op = sent[c][j].op)
            => k < l

\* the events broadcast_to_game carries
BroadcastEvents ==
    {"PlayerJoined", "PlayerLeft", "VoteCast", "VotingStarted", "VotesRevealed", "VotingReset"}

\* C36: as long as no store call has failed, in the sink of a connection that holds a
\* GameJoined of an existing game no broadcast event of that game stands before the
\* first GameJoined of the game.
C36_SnapshotBeforeBroadcasts ==
    \A c \in Conns : \A i, j \in 1..Len(sent[c]) :
        (/\ failures = 0
         /\ sent[c][i].msg.type \in BroadcastEvents
         /\ sent[c][i].op.game_id \in ExistingGames
         /\ sent[c][j].msg.type = "GameJoined"
         /\ sent[c][j].op.game_id = sent[c][i].op.game_id)
        => \E k \in 1..i : /\ sent[c][k].msg.type = "GameJoined"
                           /\ sent[c][k].op.game_id = sent[c][i].op.game_id

\* C37: in the sink of a connection, no PlayerJoined of a game stands after a
\* GameJoined of that game whose roster holds the player of the PlayerJoined.
C37_NoPlayerJoinedForSnapshotPlayer ==
    \A c \in Conns : \A i, j \in 1..Len(sent[c]) :
        (/\ j < i
         /\ sent[c][j].msg.type = "GameJoined"
         /\ sent[c][i].msg.type = "PlayerJoined"
         /\ sent[c][i].op.game_id = sent[c][j].op.game_id)
        => sent[c][i].msg.player.id \notin Ids(sent[c][j].msg.players)


\* C38: PlayerLeft for a player whose connection received the GameJoined of the game
\* is broadcast by at most one command or close: any two PlayerLeft envelopes for that
\* player, in whatever sinks, come from one operation.
C38_PlayerLeftAtMostOnce ==
    \A c, d \in Conns : \A i \in 1..Len(sent[c]) : \A j \in 1..Len(sent[d]) :
        (/\ sent[c][i].msg.type = "PlayerLeft"
         /\ sent[d][j].msg.type = "PlayerLeft"
         /\ sent[c][i].msg.player_id = sent[d][j].msg.player_id
         /\ \E e \in Conns : \E k \in 1..Len(sent[e]) :
                /\ sent[e][k].msg.type = "GameJoined"
                /\ sent[e][k].op.conn = e
                /\ sent[e][k].op.game_id = sent[c][i].op.game_id
                /\ sent[c][i].msg.player_id \in Ids(sent[e][k].msg.players)
                /\ sent[c][i].op.conn = e)
        => sent[c][i].op = sent[d][j].op


\* the first step of the handler of LeaveGame, CastVote, StartVoting, RevealVotes or
\* ResetVoting of a connection
GameCommandStep(c) ==
    \/ HandleLeaveGame(c)
    \/ \E v \in Values : HandleCastVote(c, v)
    \/ \E story \in Stories : HandleStartVoting(c, story)
    \/ HandleRevealVotes(c)
    \/ HandleResetVoting(c)

\* the connection is registered and bound to a game
HasBinding(c) == Registered(c) /\ connections[c].game_id # None

\* C39: the handler of LeaveGame, CastVote, StartVoting, RevealVotes or ResetVoting of a
\* connection that is unregistered or has no game binding returns at its first step,
\* with no store failure, no change of the store and no message in any sink.
C39_UnboundCommandIsNoOp ==
    [][\A c \in Conns :
          (GameCommandStep(c) /\ ~HasBinding(c))
          => /\ pc'[In(c)] = "idle"
             /\ locals'[In(c)] = Blank
             /\ UNCHANGED <<players, votes, games, sent, failures, connections>>]_vars

\* a registered connection without binding and an unregistered one have each had two
\* commands handled, none of them a JoinGame: the handler of a JoinGame inserts a player
\* or meets a store failure whether or not its connection is registered
W39_UnboundCommandsHandled ==
    \E c, d \in Conns :
        /\ Registered(c) /\ connections[c].game_id = None
        /\ cmds[c] >= 2 /\ pc[In(c)] = "idle"
        /\ ~Registered(d) /\ cmds[d] >= 2 /\ pc[In(d)] = "idle"
        /\ players = <<>> /\ failures = 0


\* C40: in every state of a PlanningPokerGame, current_story is None exactly when the
\* state is Waiting, and a game in Waiting holds no vote.
C40_StoryAndVotesFollowState ==
    /\ (poker.current_story = None) <=> (poker.state = "Waiting")
    /\ (poker.state = "Waiting") => (DOMAIN poker.votes = {})

\* reset_voting has brought a revealed round with a story and a vote back to Waiting
W40_ResetOfRevealedRound ==
    /\ call.op = "reset_voting"
    /\ call.before.state = "Revealed"
    /\ call.before.current_story # None
    /\ DOMAIN call.before.votes # {}
    /\ poker.state = "Waiting"

====
